---------------------------- MODULE Spec2Model ----------------------------
(***************************************************************************)
(* Company service: branches (sucursales), warehouses (almacenes) and the  *)
(* two link tables sucursales_almacenes and usuarios_sucursales, scoped    *)
(* per company (empresa).                                                  *)
(*                                                                         *)
(* db is the committed content of the four tables.  Every request runs its *)
(* handler on a session opened on db; the handler's flushes stay pending   *)
(* in the session until the unit of work of the get_db dependency commits  *)
(* them (handler returned) or rolls them back (handler raised).            *)
(* Read-only handlers are operators of (db, request); mutating routes are  *)
(* actions.  fecha_creacion is set once by the column default and never    *)
(* written again, so rows do not carry it.  Pydantic's max_length checks   *)
(* (422 before the handler runs) and the permission gate (403 before the   *)
(* handler runs) reject a request without touching the store and are not   *)
(* modelled: every request below has passed both.                          *)
(***************************************************************************)
EXTENDS Integers, Sequences, FiniteSets, Bags, TLC

VARIABLES db, response, txs

vars == <<db, response, txs>>

---------------------------------------------------------------------------
(* Bounds of the model *)

\* rows of sucursales and almacenes together (the keys are sequences and
\* grow without bound in the program)
MaxRows == 3

\* fields one update body supplies
MaxSupplied == 1

\* company ids of the callers (current_user.empresa.id_empresa)
Empresas == {1, 2}

\* rows of the external table usuarios: id_usuario -> empresas_id_empresa
usuarios == <<1, 2>>

\* ids a request may name: every id a row can have, so an id is absent
\* whenever the table is not full
SucursalIds == 1..MaxRows
AlmacenIds == 1..(MaxRows - 1)
UsuarioIds == DOMAIN usuarios

\* Optional[T]: None, or a value
None == <<>>
Some(v) == <<v>>

\* input values of the string columns
Nombres == {"n1"}
Direcciones == {"d1"}
Telefonos == {"t1"}
Descripciones == {"x1"}

Opt(S) == {None} \cup {Some(v) : v \in S}

---------------------------------------------------------------------------
(* HTTP status codes *)

HTTP_200_OK == 200
HTTP_201_CREATED == 201
HTTP_204_NO_CONTENT == 204
HTTP_400_BAD_REQUEST == 400
HTTP_404_NOT_FOUND == 404
\* an exception the handler does not catch (IntegrityError,
\* MultipleResultsFound, a lost connection) is answered 500
HTTP_500_INTERNAL_SERVER_ERROR == 500

---------------------------------------------------------------------------
(* Tables *)

EmptyDb ==
  [ sucursales |-> <<>>,
    almacenes |-> <<>>,
    sucursales_almacenes |-> EmptyBag,
    usuarios_sucursales |-> EmptyBag ]

\* class Sucursal: a new row, id_sucursal from the autoincrement key
Sucursal(id, nombre, direccion, telefono, estado, empresa) ==
  [ id_sucursal |-> id, nombre |-> nombre, direccion |-> direccion,
    telefono |-> telefono, estado |-> estado,
    empresas_id_empresa |-> empresa ]

\* class Almacen
Almacen(id, nombre, descripcion, es_principal, estado, empresa) ==
  [ id_almacen |-> id, nombre |-> nombre, descripcion |-> descripcion,
    es_principal |-> es_principal, estado |-> estado,
    empresas_id_empresa |-> empresa ]

\* class SucursalAlmacen
SucursalAlmacen(sucursal_id, almacen_id) ==
  [ sucursales_id_sucursal |-> sucursal_id,
    almacenes_id_almacen |-> almacen_id ]

\* class UsuarioSucursal
UsuarioSucursal(usuario_id, sucursal_id) ==
  [ usuarios_id_usuario |-> usuario_id,
    sucursales_id_sucursal |-> sucursal_id ]

\* nullable=False columns
SucursalNotNull == {"nombre", "direccion", "estado"}
AlmacenNotNull == {"nombre", "es_principal", "estado"}


---------------------------------------------------------------------------
(* Session and statements (SQLAlchemy AsyncSession on the relational store) *)

\* a session opened on the committed tables d: flushed statements change
\* pending only
Begin(d) == [ committed |-> d, pending |-> d ]

\* SelectSucursal without the company in the where clause
SelectSucursal_anyEmpresa(d, sucursal_id, id_empresa) ==
  LET hits == { i \in DOMAIN d.sucursales : d.sucursales[i].id_sucursal = sucursal_id }
  IN  IF hits = {} THEN None ELSE Some(d.sucursales[CHOOSE i \in hits : TRUE])

\* select(Sucursal).where(id_sucursal == sucursal_id,
\*                        empresas_id_empresa == id_empresa).scalar_one_or_none()
SelectSucursal(d, sucursal_id, id_empresa) ==
  LET hits == { i \in DOMAIN d.sucursales :
                  /\ d.sucursales[i].id_sucursal = sucursal_id
                  /\ d.sucursales[i].empresas_id_empresa = id_empresa }
  IN  IF hits = {} THEN None ELSE Some(d.sucursales[CHOOSE i \in hits : TRUE])

\* SelectAlmacen without the company in the where clause
SelectAlmacen_anyEmpresa(d, almacen_id, id_empresa) ==
  LET hits == { i \in DOMAIN d.almacenes : d.almacenes[i].id_almacen = almacen_id }
  IN  IF hits = {} THEN None ELSE Some(d.almacenes[CHOOSE i \in hits : TRUE])

\* select(Almacen).where(id_almacen == almacen_id,
\*                       empresas_id_empresa == id_empresa).scalar_one_or_none()
SelectAlmacen(d, almacen_id, id_empresa) ==
  LET hits == { i \in DOMAIN d.almacenes :
                  /\ d.almacenes[i].id_almacen = almacen_id
                  /\ d.almacenes[i].empresas_id_empresa = id_empresa }
  IN  IF hits = {} THEN None ELSE Some(d.almacenes[CHOOSE i \in hits : TRUE])

\* SELECT id_usuario FROM usuarios
\*  WHERE id_usuario = :id_usuario AND empresas_id_empresa = :id_empresa
SelectUsuario(usuario_id, id_empresa) ==
  LET hits == { u \in DOMAIN usuarios : u = usuario_id /\ usuarios[u] = id_empresa }
  IN  IF hits = {} THEN None ELSE Some(CHOOSE u \in hits : TRUE)

\* a link table without its primary key
PrimaryKeyFree_unconstrained(table, row) == TRUE

\* the composite primary key of a link table: a second row with the same
\* key violates it
PrimaryKeyFree(table, row) == ~ BagIn(row, table)

\* ForeignKey("sucursales.id_sucursal")
FkSucursal(d, sucursal_id) ==
  \E i \in DOMAIN d.sucursales : d.sucursales[i].id_sucursal = sucursal_id

\* ForeignKey("almacenes.id_almacen")
FkAlmacen(d, almacen_id) ==
  \E i \in DOMAIN d.almacenes : d.almacenes[i].id_almacen = almacen_id

\* db.add(sucursal); flush: INSERT INTO sucursales, the key from the sequence
InsertSucursal(sess, nombre, direccion, telefono, estado, empresa) ==
  LET id == Len(sess.pending.sucursales) + 1
      row == Sucursal(id, nombre, direccion, telefono, estado, empresa)
  IN  [ sess EXCEPT !.pending.sucursales = Append(@, row) ]

\* InsertAlmacen with db.commit() in place of db.flush()
InsertAlmacen_commit(sess, nombre, descripcion, es_principal, estado, empresa) ==
  LET id == Len(sess.pending.almacenes) + 1
      row == Almacen(id, nombre, descripcion, es_principal, estado, empresa)
      d2 == [ sess.pending EXCEPT !.almacenes = Append(@, row) ]
  IN  [ committed |-> d2, pending |-> d2 ]

\* db.add(almacen); flush: INSERT INTO almacenes, the key from the sequence
InsertAlmacen(sess, nombre, descripcion, es_principal, estado, empresa) ==
  LET id == Len(sess.pending.almacenes) + 1
      row == Almacen(id, nombre, descripcion, es_principal, estado, empresa)
  IN  [ sess EXCEPT !.pending.almacenes = Append(@, row) ]

\* db.add(vinculo); flush: INSERT INTO sucursales_almacenes
\* ok is FALSE when the statement raises IntegrityError
InsertSucursalAlmacen(sess, row) ==
  IF /\ PrimaryKeyFree(sess.pending.sucursales_almacenes, row)
     /\ FkSucursal(sess.pending, row.sucursales_id_sucursal)
     /\ FkAlmacen(sess.pending, row.almacenes_id_almacen)
  THEN [ ok |-> TRUE,
         sess |-> [ sess EXCEPT !.pending.sucursales_almacenes =
                                   @ (+) SetToBag({row}) ] ]
  ELSE [ ok |-> FALSE, sess |-> sess ]

\* db.add(asign); flush: INSERT INTO usuarios_sucursales
InsertUsuarioSucursal(sess, row) ==
  IF /\ PrimaryKeyFree(sess.pending.usuarios_sucursales, row)
     /\ FkSucursal(sess.pending, row.sucursales_id_sucursal)
  THEN [ ok |-> TRUE,
         sess |-> [ sess EXCEPT !.pending.usuarios_sucursales =
                                   @ (+) SetToBag({row}) ] ]
  ELSE [ ok |-> FALSE, sess |-> sess ]

\* select(SucursalAlmacen).where(...): the number of rows with this key;
\* scalar_one_or_none() raises MultipleResultsFound above one
CountSucursalAlmacen(d, row) == CopiesIn(row, d.sucursales_almacenes)

CountUsuarioSucursal(d, row) == CopiesIn(row, d.usuarios_sucursales)

\* DeleteSucursalAlmacen with the warehouse alone in the WHERE clause
DeleteSucursalAlmacen_ofAlmacen(sess, row) ==
  [ sess EXCEPT !.pending.sucursales_almacenes =
      LET keep == { l \in BagToSet(@) : l.almacenes_id_almacen # row.almacenes_id_almacen }
      IN  [ l \in keep |-> @[l] ] ]

\* db.delete(vinculo): DELETE FROM sucursales_almacenes WHERE <key>,
\* emitted when the unit of work flushes before its commit
DeleteSucursalAlmacen(sess, row) ==
  [ sess EXCEPT !.pending.sucursales_almacenes = @ (-) SetToBag({row}) ]

\* db.delete(asign)
DeleteUsuarioSucursal(sess, row) ==
  [ sess EXCEPT !.pending.usuarios_sucursales = @ (-) SetToBag({row}) ]

\* for field, value in data.items(): setattr(row, field, value)
\* nullable columns keep the Optional, the others the bare value
SetAttrs(row, data, notnull) ==
  [ f \in DOMAIN row |->
      IF f \in DOMAIN data
        THEN IF f \in notnull THEN data[f][1] ELSE data[f]
        ELSE row[f] ]

\* flush of an UPDATE: a None set on a nullable=False column raises
\* IntegrityError
NotNullOk(data, notnull) == \A f \in DOMAIN data \cap notnull : data[f] # None

\* UPDATE sucursales SET ... without its WHERE: every row takes the columns
\* of row and keeps its key
UpdateSucursal_noWhere(sess, row) ==
  LET old == sess.pending.sucursales
  IN  [ sess EXCEPT !.pending.sucursales =
          [ i \in DOMAIN old |-> [ row EXCEPT !.id_sucursal = old[i].id_sucursal ] ] ]

\* UPDATE sucursales SET ... WHERE id_sucursal = row.id_sucursal
UpdateSucursal(sess, row) ==
  [ sess EXCEPT !.pending.sucursales =
      [ i \in DOMAIN @ |-> IF @[i].id_sucursal = row.id_sucursal THEN row ELSE @[i] ] ]

\* UPDATE almacenes SET ... WHERE id_almacen = row.id_almacen
UpdateAlmacen(sess, row) ==
  [ sess EXCEPT !.pending.almacenes =
      [ i \in DOMAIN @ |-> IF @[i].id_almacen = row.id_almacen THEN row ELSE @[i] ] ]

\* what a handler leaves: the status answered (an exception when >= 400),
\* its session, and the id of the row it created (0: none)
Result(status, sess, id) == [ status |-> status, sess |-> sess, id |-> id ]

\* the get_db dependency, the unit of work around the handler: commit when
\* the handler returned, rollback when it raised
get_db(result) ==
  IF result.status < HTTP_400_BAD_REQUEST
    THEN result.sess.pending
    ELSE result.sess.committed

---------------------------------------------------------------------------
(* Request bodies *)

\* SucursalCreate: nombre and direccion required, the rest optional
SucursalCreate ==
  [ nombre : Nombres, direccion : Direcciones, telefono : {None},
    estado : Opt({FALSE}), almacen_id : Opt({1}) ]

\* AlmacenCreate: nombre and sucursal_id required
AlmacenCreate ==
  [ nombre : Nombres, descripcion : {None}, es_principal : {FALSE},
    estado : Opt({FALSE}), sucursal_id : SucursalIds ]

\* a field of an update body: left out (Unset), or supplied with a value
\* or an explicit null
Unset == <<>>
Supplied(S) == {Unset} \cup { <<v>> : v \in Opt(S) }

SuppliedFields(payload) == { f \in DOMAIN payload : payload[f] # Unset }

\* bodies of PATCH /sucursales/{id}: at most MaxSupplied fields supplied
SucursalUpdate ==
  { b \in [ nombre : {Unset, <<None>>}, direccion : {Unset}, telefono : {Unset},
            estado : Supplied(BOOLEAN) ] :
      Cardinality(SuppliedFields(b)) <= MaxSupplied }

\* bodies of PATCH /almacenes/{id}
AlmacenUpdate ==
  { b \in [ nombre : {Unset, <<None>>}, descripcion : {Unset},
            es_principal : {Unset}, estado : Supplied(BOOLEAN) ] :
      Cardinality(SuppliedFields(b)) <= MaxSupplied }

\* model_dump(exclude_unset=True): the supplied fields with their values
model_dump(payload) == [ f \in SuppliedFields(payload) |-> payload[f][1] ]

\* SucursalAlmacenCreate
SucursalAlmacenCreate == [ sucursal_id : SucursalIds ]

\* the JSON body of POST /sucursales/{sucursal_id}/usuarios as a client may
\* send it: usuario_id, and possibly a branch reference
UsuarioSucursalBody ==
  [ usuario_id : UsuarioIds, sucursales_id_sucursal : Opt({1}) ]

\* UsuarioSucursalCreate: the one declared field; pydantic drops the others
UsuarioSucursalCreate(body) == [ usuario_id |-> body.usuario_id ]

---------------------------------------------------------------------------
(* Handlers of app/routers/sucursales.py *)

create_sucursal(d, empresa, sucursal_create) ==
  LET s0 == Begin(d)
      s1 == InsertSucursal(s0, sucursal_create.nombre, sucursal_create.direccion,
                           sucursal_create.telefono,
                           IF sucursal_create.estado # None
                             THEN sucursal_create.estado[1] ELSE TRUE,
                           empresa)
  IN  Result(HTTP_201_CREATED, s1, Len(s1.pending.sucursales))

update_sucursal(d, empresa, sucursal_id, sucursal_update) ==
  LET s0 == Begin(d)
      data == model_dump(sucursal_update)
      sucursal == SelectSucursal(s0.pending, sucursal_id, empresa)
  IN  IF sucursal = None
        THEN Result(HTTP_404_NOT_FOUND, s0, 0)
        ELSE IF ~ NotNullOk(data, SucursalNotNull)
          THEN Result(HTTP_500_INTERNAL_SERVER_ERROR, s0, 0)
          ELSE Result(HTTP_200_OK,
                      UpdateSucursal(s0, SetAttrs(sucursal[1], data, SucursalNotNull)),
                      0)

\* delete_sucursal that also deletes the link rows of the branch
delete_sucursal_cascade(d, empresa, sucursal_id) ==
  LET s0 == Begin(d)
      sucursal == SelectSucursal(s0.pending, sucursal_id, empresa)
      links == s0.pending.sucursales_almacenes
      kept == { l \in BagToSet(links) : l.sucursales_id_sucursal # sucursal_id }
      s1 == [ s0 EXCEPT !.pending.sucursales_almacenes = [ l \in kept |-> links[l] ] ]
  IN  IF sucursal = None
        THEN Result(HTTP_404_NOT_FOUND, s0, 0)
        ELSE Result(HTTP_204_NO_CONTENT,
                    UpdateSucursal(s1, [ sucursal[1] EXCEPT !.estado = FALSE ]),
                    0)

\* delete_sucursal that looks for an active row only
delete_sucursal_activeOnly(d, empresa, sucursal_id) ==
  LET s0 == Begin(d)
      sucursal == SelectSucursal(s0.pending, sucursal_id, empresa)
  IN  IF sucursal = None \/ ~ sucursal[1].estado
        THEN Result(HTTP_404_NOT_FOUND, s0, 0)
        ELSE Result(HTTP_204_NO_CONTENT,
                    UpdateSucursal(s0, [ sucursal[1] EXCEPT !.estado = FALSE ]),
                    0)

delete_sucursal(d, empresa, sucursal_id) ==
  LET s0 == Begin(d)
      sucursal == SelectSucursal(s0.pending, sucursal_id, empresa)
  IN  IF sucursal = None
        THEN Result(HTTP_404_NOT_FOUND, s0, 0)
        ELSE Result(HTTP_204_NO_CONTENT,
                    UpdateSucursal(s0, [ sucursal[1] EXCEPT !.estado = FALSE ]),
                    0)

\* assign_usuario_to_sucursal that does not look the user up
assign_usuario_to_sucursal_sinUsuario(d, empresa, sucursal_id, payload) ==
  LET s0 == Begin(d)
      sucursal == SelectSucursal(s0.pending, sucursal_id, empresa)
      ins == InsertUsuarioSucursal(s0, UsuarioSucursal(payload.usuario_id, sucursal_id))
  IN  IF sucursal = None
        THEN Result(HTTP_400_BAD_REQUEST, s0, 0)
        ELSE IF ~ ins.ok
          THEN Result(HTTP_500_INTERNAL_SERVER_ERROR, s0, 0)
          ELSE Result(HTTP_201_CREATED, ins.sess, 0)

\* first registration of POST /sucursales/{sucursal_id}/usuarios
assign_usuario_to_sucursal(d, empresa, sucursal_id, payload) ==
  LET s0 == Begin(d)
      sucursal == SelectSucursal(s0.pending, sucursal_id, empresa)
      user_row == SelectUsuario(payload.usuario_id, empresa)
      ins == InsertUsuarioSucursal(s0, UsuarioSucursal(payload.usuario_id, sucursal_id))
  IN  IF sucursal = None
        THEN Result(HTTP_400_BAD_REQUEST, s0, 0)
        ELSE IF user_row = None
          THEN Result(HTTP_400_BAD_REQUEST, s0, 0)
          ELSE IF ~ ins.ok
            THEN Result(HTTP_500_INTERNAL_SERVER_ERROR, s0, 0)
            ELSE Result(HTTP_201_CREATED, ins.sess, 0)

remove_usuario_from_sucursal(d, empresa, sucursal_id, usuario_id) ==
  LET s0 == Begin(d)
      sucursal == SelectSucursal(s0.pending, sucursal_id, empresa)
      asign == UsuarioSucursal(usuario_id, sucursal_id)
      n == CountUsuarioSucursal(s0.pending, asign)
  IN  IF sucursal = None
        THEN Result(HTTP_404_NOT_FOUND, s0, 0)
        ELSE IF n = 0
          THEN Result(HTTP_404_NOT_FOUND, s0, 0)
          ELSE IF n > 1
            THEN Result(HTTP_500_INTERNAL_SERVER_ERROR, s0, 0)
            ELSE Result(HTTP_204_NO_CONTENT, DeleteUsuarioSucursal(s0, asign), 0)

---------------------------------------------------------------------------
(* Handlers of app/routers/almacenes.py *)

\* create_almacen without the validation of sucursal_id
create_almacen_unvalidated(d, empresa, almacen_create, fault) ==
  LET s0 == Begin(d)
      s1 == InsertAlmacen(s0, almacen_create.nombre, almacen_create.descripcion,
                          almacen_create.es_principal,
                          IF almacen_create.estado # None
                            THEN almacen_create.estado[1] ELSE TRUE,
                          empresa)
      id_almacen == Len(s1.pending.almacenes)
      ins == InsertSucursalAlmacen(s1, SucursalAlmacen(almacen_create.sucursal_id,
                                                      id_almacen))
  IN  IF fault \/ ~ ins.ok
        THEN Result(HTTP_500_INTERNAL_SERVER_ERROR, s1, 0)
        ELSE Result(HTTP_201_CREATED, ins.sess, id_almacen)

\* fault: the round trip between the two writes (db.refresh, the second
\* flush) fails with an error of the driver
create_almacen(d, empresa, almacen_create, fault) ==
  LET s0 == Begin(d)
      sucursal == SelectSucursal(s0.pending, almacen_create.sucursal_id, empresa)
      s1 == InsertAlmacen(s0, almacen_create.nombre, almacen_create.descripcion,
                          almacen_create.es_principal,
                          IF almacen_create.estado # None
                            THEN almacen_create.estado[1] ELSE TRUE,
                          empresa)
      id_almacen == Len(s1.pending.almacenes)
      ins == InsertSucursalAlmacen(s1, SucursalAlmacen(almacen_create.sucursal_id,
                                                      id_almacen))
  IN  IF sucursal = None
        THEN Result(HTTP_400_BAD_REQUEST, s0, 0)
        ELSE IF fault
          THEN Result(HTTP_500_INTERNAL_SERVER_ERROR, s1, 0)
          ELSE IF ~ ins.ok
            THEN Result(HTTP_500_INTERNAL_SERVER_ERROR, s1, 0)
            ELSE Result(HTTP_201_CREATED, ins.sess, id_almacen)

update_almacen(d, empresa, almacen_id, almacen_update) ==
  LET s0 == Begin(d)
      data == model_dump(almacen_update)
      almacen == SelectAlmacen(s0.pending, almacen_id, empresa)
  IN  IF almacen = None
        THEN Result(HTTP_404_NOT_FOUND, s0, 0)
        ELSE IF ~ NotNullOk(data, AlmacenNotNull)
          THEN Result(HTTP_500_INTERNAL_SERVER_ERROR, s0, 0)
          ELSE Result(HTTP_200_OK,
                      UpdateAlmacen(s0, SetAttrs(almacen[1], data, AlmacenNotNull)),
                      0)

\* delete_almacen that flips the flag (estado = not estado)
delete_almacen_toggle(d, empresa, almacen_id) ==
  LET s0 == Begin(d)
      almacen == SelectAlmacen(s0.pending, almacen_id, empresa)
  IN  IF almacen = None
        THEN Result(HTTP_404_NOT_FOUND, s0, 0)
        ELSE Result(HTTP_204_NO_CONTENT,
                    UpdateAlmacen(s0, [ almacen[1] EXCEPT !.estado = ~ @ ]),
                    0)

delete_almacen(d, empresa, almacen_id) ==
  LET s0 == Begin(d)
      almacen == SelectAlmacen(s0.pending, almacen_id, empresa)
  IN  IF almacen = None
        THEN Result(HTTP_404_NOT_FOUND, s0, 0)
        ELSE Result(HTTP_204_NO_CONTENT,
                    UpdateAlmacen(s0, [ almacen[1] EXCEPT !.estado = FALSE ]),
                    0)

\* link_sucursal_to_almacen that validates the warehouse only
link_sucursal_to_almacen_almacenOnly(d, empresa, almacen_id, payload) ==
  LET s0 == Begin(d)
      almacen == SelectAlmacen(s0.pending, almacen_id, empresa)
      ins == InsertSucursalAlmacen(s0, SucursalAlmacen(payload.sucursal_id, almacen_id))
  IN  IF almacen = None
        THEN Result(HTTP_400_BAD_REQUEST, s0, 0)
        ELSE IF ~ ins.ok
          THEN Result(HTTP_500_INTERNAL_SERVER_ERROR, s0, 0)
          ELSE Result(HTTP_201_CREATED, ins.sess, 0)

link_sucursal_to_almacen(d, empresa, almacen_id, payload) ==
  LET s0 == Begin(d)
      almacen == SelectAlmacen(s0.pending, almacen_id, empresa)
      sucursal == SelectSucursal(s0.pending, payload.sucursal_id, empresa)
      ins == InsertSucursalAlmacen(s0, SucursalAlmacen(payload.sucursal_id, almacen_id))
  IN  IF almacen = None
        THEN Result(HTTP_400_BAD_REQUEST, s0, 0)
        ELSE IF sucursal = None
          THEN Result(HTTP_400_BAD_REQUEST, s0, 0)
          ELSE IF ~ ins.ok
            THEN Result(HTTP_500_INTERNAL_SERVER_ERROR, s0, 0)
            ELSE Result(HTTP_201_CREATED, ins.sess, 0)

unlink_sucursal_from_almacen(d, empresa, almacen_id, sucursal_id) ==
  LET s0 == Begin(d)
      almacen == SelectAlmacen(s0.pending, almacen_id, empresa)
      vinculo == SucursalAlmacen(sucursal_id, almacen_id)
      n == CountSucursalAlmacen(s0.pending, vinculo)
  IN  IF almacen = None
        THEN Result(HTTP_404_NOT_FOUND, s0, 0)
        ELSE IF n = 0
          THEN Result(HTTP_404_NOT_FOUND, s0, 0)
          ELSE IF n > 1
            THEN Result(HTTP_500_INTERNAL_SERVER_ERROR, s0, 0)
            ELSE Result(HTTP_204_NO_CONTENT, DeleteSucursalAlmacen(s0, vinculo), 0)

---------------------------------------------------------------------------
(* Read-only handlers: the answer as a function of the committed tables *)

\* SucursalResponse: the row without its owning company
SucursalResponse(row) ==
  [ id_sucursal |-> row.id_sucursal, nombre |-> row.nombre,
    direccion |-> row.direccion, telefono |-> row.telefono,
    estado |-> row.estado ]

\* AlmacenResponse: the row without its owning company
AlmacenResponse(row) ==
  [ id_almacen |-> row.id_almacen, nombre |-> row.nombre,
    descripcion |-> row.descripcion, es_principal |-> row.es_principal,
    estado |-> row.estado ]

Answer(status, body) == [ status |-> status, body |-> body ]

\* no ORDER BY: the rows as a set
list_sucursales(d, empresa) ==
  Answer(HTTP_200_OK,
         { SucursalResponse(d.sucursales[i]) :
             i \in { j \in DOMAIN d.sucursales :
                       d.sucursales[j].empresas_id_empresa = empresa } })

get_sucursal(d, empresa, sucursal_id) ==
  LET sucursal == SelectSucursal(d, sucursal_id, empresa)
  IN  IF sucursal = None
        THEN Answer(HTTP_404_NOT_FOUND, None)
        ELSE Answer(HTTP_200_OK, Some(SucursalResponse(sucursal[1])))

list_almacenes(d, empresa) ==
  Answer(HTTP_200_OK,
         { AlmacenResponse(d.almacenes[i]) :
             i \in { j \in DOMAIN d.almacenes :
                       d.almacenes[j].empresas_id_empresa = empresa } })

get_almacen(d, empresa, almacen_id) ==
  LET almacen == SelectAlmacen(d, almacen_id, empresa)
  IN  IF almacen = None
        THEN Answer(HTTP_404_NOT_FOUND, None)
        ELSE Answer(HTTP_200_OK, Some(AlmacenResponse(almacen[1])))

\* OrderBy in descending key order (ORDER BY ... DESC)
RECURSIVE OrderBy_desc(_, _, _, _)
OrderBy_desc(row, count, from, to) ==
  IF from > to THEN <<>>
  ELSE [ i \in 1..count[to] |-> row[to] ] \o OrderBy_desc(row, count, from, to - 1)

\* the rows of a query in ascending key order, each as often as the join
\* produced it: count[k] copies of row[k] for k = from..to
RECURSIVE OrderBy(_, _, _, _)
OrderBy(row, count, from, to) ==
  IF from > to THEN <<>>
  ELSE [ i \in 1..count[from] |-> row[from] ] \o OrderBy(row, count, from + 1, to)

\* FROM sucursales_almacenes sa JOIN almacenes a
\*   ON a.id_almacen = sa.almacenes_id_almacen
\* WHERE sa.sucursales_id_sucursal = :sucursal_id
\*   AND a.empresas_id_empresa = :id_empresa   ORDER BY a.id_almacen
list_almacenes_de_sucursal(d, empresa, sucursal_id) ==
  LET sucursal == SelectSucursal(d, sucursal_id, empresa)
      count == [ k \in DOMAIN d.almacenes |->
                   IF d.almacenes[k].empresas_id_empresa = empresa
                     THEN CopiesIn(SucursalAlmacen(sucursal_id, d.almacenes[k].id_almacen),
                                   d.sucursales_almacenes)
                     ELSE 0 ]
      row == [ k \in DOMAIN d.almacenes |-> AlmacenResponse(d.almacenes[k]) ]
  IN  IF sucursal = None
        THEN Answer(HTTP_404_NOT_FOUND, <<>>)
        ELSE Answer(HTTP_200_OK, OrderBy(row, count, 1, Len(d.almacenes)))

\* FROM sucursales_almacenes sa JOIN sucursales s
\*   ON s.id_sucursal = sa.sucursales_id_sucursal
\* WHERE sa.almacenes_id_almacen = :almacen_id
\*   AND s.empresas_id_empresa = :id_empresa   ORDER BY s.id_sucursal
list_sucursales_de_almacen(d, empresa, almacen_id) ==
  LET almacen == SelectAlmacen(d, almacen_id, empresa)
      count == [ k \in DOMAIN d.sucursales |->
                   IF d.sucursales[k].empresas_id_empresa = empresa
                     THEN CopiesIn(SucursalAlmacen(d.sucursales[k].id_sucursal, almacen_id),
                                   d.sucursales_almacenes)
                     ELSE 0 ]
      row == [ k \in DOMAIN d.sucursales |-> SucursalResponse(d.sucursales[k]) ]
  IN  IF almacen = None
        THEN Answer(HTTP_404_NOT_FOUND, <<>>)
        ELSE Answer(HTTP_200_OK, OrderBy(row, count, 1, Len(d.sucursales)))

\* FROM usuarios_sucursales us JOIN usuarios u
\*   ON u.id_usuario = us.usuarios_id_usuario
\* WHERE us.sucursales_id_sucursal = :sucursal_id
\*   AND u.empresas_id_empresa = :id_empresa   ORDER BY u.id_usuario
list_usuarios_de_sucursal(d, empresa, sucursal_id) ==
  LET sucursal == SelectSucursal(d, sucursal_id, empresa)
      count == [ u \in DOMAIN usuarios |->
                   IF usuarios[u] = empresa
                     THEN CopiesIn(UsuarioSucursal(u, sucursal_id), d.usuarios_sucursales)
                     ELSE 0 ]
      row == [ u \in DOMAIN usuarios |-> u ]
  IN  IF sucursal = None
        THEN Answer(HTTP_404_NOT_FOUND, <<>>)
        ELSE Answer(HTTP_200_OK, OrderBy(row, count, 1, Len(usuarios)))

---------------------------------------------------------------------------
(* Routing *)

\* second registration of POST /sucursales/{sucursal_id}/usuarios: its first
\* statement reads payload.sucursales_id_sucursal, which UsuarioSucursalCreate
\* does not declare (AttributeError)
assign_usuario_to_sucursal_2(d, empresa, sucursal_id, payload) ==
  Result(HTTP_500_INTERNAL_SERVER_ERROR, Begin(d), 0)

\* the registrations of POST /sucursales/{sucursal_id}/usuarios in the order
\* of their decorators; the router serves a request with the first match
PostUsuariosRoutes == << "assign_usuario_to_sucursal", "assign_usuario_to_sucursal_2" >>

FirstMatch(routes) == routes[1]

---------------------------------------------------------------------------
(* Requests, each served in one piece: handler, then get_db *)

\* the last mutating request and its answer: the handler that served it,
\* the caller's company and the status
Response(op, empresa, status) ==
  [ op |-> op, empresa |-> empresa, status |-> status ]

\* the requests in flight of the interleaved specification
Slots == {1, 2}
Idle ==
  [ pc |-> "idle", empresa |-> 0, almacen_id |-> 0, sucursal_id |-> 0,
    status |-> 0, overlap |-> FALSE ]

Init ==
  /\ db = EmptyDb
  /\ response = Response("none", 0, 0)
  /\ txs = [ t \in Slots |-> Idle ]

Full == Len(db.sucursales) + Len(db.almacenes) >= MaxRows

\* POST /sucursales
PostSucursales(empresa, body) ==
  LET r == create_sucursal(db, empresa, body)
  IN  /\ ~ Full
      /\ db' = get_db(r)
      /\ response' = Response("create_sucursal", empresa, r.status)
      /\ UNCHANGED txs

\* PATCH /sucursales/{sucursal_id}
PatchSucursal(empresa, sucursal_id, body) ==
  LET r == update_sucursal(db, empresa, sucursal_id, body)
  IN  /\ db' = get_db(r)
      /\ response' = Response("update_sucursal", empresa, r.status)
      /\ UNCHANGED txs

\* DELETE /sucursales/{sucursal_id}
DeleteSucursal(empresa, sucursal_id) ==
  LET r == delete_sucursal(db, empresa, sucursal_id)
  IN  /\ db' = get_db(r)
      /\ response' = Response("delete_sucursal", empresa, r.status)
      /\ UNCHANGED txs

\* the handler the router runs for POST /sucursales/{sucursal_id}/usuarios
post_sucursal_usuarios(d, empresa, sucursal_id, body) ==
  LET payload == UsuarioSucursalCreate(body)
  IN  IF FirstMatch(PostUsuariosRoutes) = "assign_usuario_to_sucursal"
        THEN assign_usuario_to_sucursal(d, empresa, sucursal_id, payload)
        ELSE assign_usuario_to_sucursal_2(d, empresa, sucursal_id, payload)

\* POST /sucursales/{sucursal_id}/usuarios
PostSucursalUsuarios(empresa, sucursal_id, body) ==
  LET r == post_sucursal_usuarios(db, empresa, sucursal_id, body)
  IN  /\ db' = get_db(r)
      /\ response' = Response("assign_usuario_to_sucursal", empresa, r.status)
      /\ UNCHANGED txs

\* DELETE /sucursales/{sucursal_id}/usuarios/{usuario_id}
DeleteSucursalUsuario(empresa, sucursal_id, usuario_id) ==
  LET r == remove_usuario_from_sucursal(db, empresa, sucursal_id, usuario_id)
  IN  /\ db' = get_db(r)
      /\ response' = Response("remove_usuario_from_sucursal", empresa, r.status)
      /\ UNCHANGED txs

\* POST /almacenes
PostAlmacenes(empresa, body, fault) ==
  LET r == create_almacen(db, empresa, body, fault)
  IN  /\ r.status = HTTP_400_BAD_REQUEST \/ ~ Full
      /\ db' = get_db(r)
      /\ response' = Response("create_almacen", empresa, r.status)
      /\ UNCHANGED txs

\* PATCH /almacenes/{almacen_id}
PatchAlmacen(empresa, almacen_id, body) ==
  LET r == update_almacen(db, empresa, almacen_id, body)
  IN  /\ db' = get_db(r)
      /\ response' = Response("update_almacen", empresa, r.status)
      /\ UNCHANGED txs

\* DELETE /almacenes/{almacen_id}
DeleteAlmacen(empresa, almacen_id) ==
  LET r == delete_almacen(db, empresa, almacen_id)
  IN  /\ db' = get_db(r)
      /\ response' = Response("delete_almacen", empresa, r.status)
      /\ UNCHANGED txs

\* POST /almacenes/{almacen_id}/sucursales
PostAlmacenSucursales(empresa, almacen_id, body) ==
  LET r == link_sucursal_to_almacen(db, empresa, almacen_id, body)
  IN  /\ db' = get_db(r)
      /\ response' = Response("link_sucursal_to_almacen", empresa, r.status)
      /\ UNCHANGED txs

\* DELETE /almacenes/{almacen_id}/sucursales/{sucursal_id}
DeleteAlmacenSucursal(empresa, almacen_id, sucursal_id) ==
  LET r == unlink_sucursal_from_almacen(db, empresa, almacen_id, sucursal_id)
  IN  /\ db' = get_db(r)
      /\ response' = Response("unlink_sucursal_from_almacen", empresa, r.status)
      /\ UNCHANGED txs

Next ==
  \/ \E e \in Empresas, b \in SucursalCreate : PostSucursales(e, b)
  \/ \E e \in Empresas, s \in SucursalIds, b \in SucursalUpdate : PatchSucursal(e, s, b)
  \/ \E e \in Empresas, s \in SucursalIds : DeleteSucursal(e, s)
  \/ \E e \in Empresas, s \in SucursalIds, b \in UsuarioSucursalBody :
       PostSucursalUsuarios(e, s, b)
  \/ \E e \in Empresas, s \in SucursalIds, u \in UsuarioIds :
       DeleteSucursalUsuario(e, s, u)
  \/ \E e \in Empresas, b \in AlmacenCreate, f \in BOOLEAN : PostAlmacenes(e, b, f)
  \/ \E e \in Empresas, a \in AlmacenIds, b \in AlmacenUpdate : PatchAlmacen(e, a, b)
  \/ \E e \in Empresas, a \in AlmacenIds : DeleteAlmacen(e, a)
  \/ \E e \in Empresas, a \in AlmacenIds, b \in SucursalAlmacenCreate :
       PostAlmacenSucursales(e, a, b)
  \/ \E e \in Empresas, a \in AlmacenIds, s \in SucursalIds :
       DeleteAlmacenSucursal(e, a, s)

Spec == Init /\ [][Next]_vars

---------------------------------------------------------------------------
(* link_sucursal_to_almacen, one step per await, for requests in flight *)
(* together.  Each request has its own session; the answer of request t *)
(* is txs[t].status once txs[t].pc = "done".                             *)

InFlight(t) == txs[t].pc \notin {"idle", "done"}

\* the row request t inserts
Vinculo(t) == SucursalAlmacen(txs[t].sucursal_id, txs[t].almacen_id)

\* the request ends with this status
Done(t, status) == [ txs EXCEPT ![t].pc = "done", ![t].status = status ]

\* the request arrives; overlap records that another one is in flight
LinkBegin(t, empresa, almacen_id, body) ==
  /\ txs[t].pc = "idle"
  /\ txs' = [ u \in Slots |->
                IF u = t
                  THEN [ pc |-> "q_a", empresa |-> empresa, almacen_id |-> almacen_id,
                         sucursal_id |-> body.sucursal_id, status |-> 0,
                         overlap |-> \E v \in Slots \ {t} : InFlight(v) ]
                  ELSE IF InFlight(u) THEN [ txs[u] EXCEPT !.overlap = TRUE ]
                  ELSE txs[u] ]
  /\ UNCHANGED <<db, response>>

\* res_a = await db.execute(q_a)
LinkSelectAlmacen(t) ==
  /\ txs[t].pc = "q_a"
  /\ txs' = IF SelectAlmacen(db, txs[t].almacen_id, txs[t].empresa) = None
              THEN Done(t, HTTP_400_BAD_REQUEST)
              ELSE [ txs EXCEPT ![t].pc = "q_s" ]
  /\ UNCHANGED <<db, response>>

\* res_s = await db.execute(q_s)
LinkSelectSucursal(t) ==
  /\ txs[t].pc = "q_s"
  /\ txs' = IF SelectSucursal(db, txs[t].sucursal_id, txs[t].empresa) = None
              THEN Done(t, HTTP_400_BAD_REQUEST)
              ELSE [ txs EXCEPT ![t].pc = "add" ]
  /\ UNCHANGED <<db, response>>

\* an INSERT waits while another session holds an uncommitted row with the
\* same primary key
Blocked(t) ==
  \E u \in Slots \ {t} :
    txs[u].pc = "flushed" /\ ~ PrimaryKeyFree(SetToBag({Vinculo(u)}), Vinculo(t))

\* db.add(vinculo); await db.flush(): IntegrityError is not caught
LinkFlush(t) ==
  /\ txs[t].pc = "add"
  /\ ~ Blocked(t)
  /\ txs' = IF InsertSucursalAlmacen(Begin(db), Vinculo(t)).ok
              THEN [ txs EXCEPT ![t].pc = "flushed" ]
              ELSE Done(t, HTTP_500_INTERNAL_SERVER_ERROR)
  /\ UNCHANGED <<db, response>>

\* the handler returned: get_db commits the session
LinkCommit(t) ==
  /\ txs[t].pc = "flushed"
  /\ db' = [ db EXCEPT !.sucursales_almacenes = @ (+) SetToBag({Vinculo(t)}) ]
  /\ txs' = Done(t, HTTP_201_CREATED)
  /\ UNCHANGED response

\* the answer is delivered; the slot serves the next request
LinkRelease(t) ==
  /\ txs[t].pc = "done"
  /\ txs' = [ txs EXCEPT ![t] = Idle ]
  /\ UNCHANGED <<db, response>>

\* the tables after: company 1 creates branch 1, company 2 creates branch 2,
\* company 1 creates warehouse 1 on branch 1
ConcDbLinked ==
  LET body_s == [ nombre |-> "n1", direccion |-> "d1", telefono |-> None,
                  estado |-> None, almacen_id |-> None ]
      body_a == [ nombre |-> "n1", descripcion |-> None, es_principal |-> FALSE,
                  estado |-> None, sucursal_id |-> 1 ]
      d1 == get_db(create_sucursal(EmptyDb, 1, body_s))
      d2 == get_db(create_sucursal(d1, 2, body_s))
  IN  get_db(create_almacen(d2, 1, body_a, FALSE))

\* and after company 1 then unlinks branch 1 from warehouse 1
ConcDbUnlinked == get_db(unlink_sucursal_from_almacen(ConcDbLinked, 1, 1, 1))

InitConc ==
  /\ db \in {ConcDbLinked, ConcDbUnlinked}
  /\ response = Response("none", 0, 0)
  /\ txs = [ t \in Slots |-> Idle ]

NextConc ==
  \/ \E t \in Slots, e \in Empresas, a \in AlmacenIds, b \in SucursalAlmacenCreate :
       LinkBegin(t, e, a, b)
  \/ \E t \in Slots : LinkSelectAlmacen(t)
  \/ \E t \in Slots : LinkSelectSucursal(t)
  \/ \E t \in Slots : LinkFlush(t)
  \/ \E t \in Slots : LinkCommit(t)
  \/ \E t \in Slots : LinkRelease(t)

SpecConc == InitConc /\ [][NextConc]_vars

---------------------------------------------------------------------------
(* update_* and delete_* of one row, one step per await, for two requests *)
(* in flight together, each with its own session                           *)

\* a flush that writes every column of the loaded object back
Dirty_todas(loaded, obj) == DOMAIN obj

\* the columns the flush of a loaded object writes: those set to a value
\* other than the one loaded (UPDATE ... SET <these> WHERE <key>)
Dirty(loaded, obj) == { f \in DOMAIN obj : obj[f] # loaded[f] }

\* bodies of the PATCH requests in flight
SucursalUpdateEnVuelo ==
  [ nombre : {Unset, <<Some("n2")>>}, direccion : {Unset}, telefono : {Unset},
    estado : {Unset, <<Some(TRUE)>>} ]

AlmacenUpdateEnVuelo ==
  [ nombre : {Unset, <<Some("n2")>>}, descripcion : {Unset}, es_principal : {Unset},
    estado : {Unset, <<Some(TRUE)>>} ]

\* sucursal.estado = False / almacen.estado = False, as the attributes set
SetEstadoFalse == "estado" :> Some(FALSE)

\* the requests: the handler, the caller's company, the id in the path and
\* the attributes the handler sets on the loaded row
EnVuelo ==
  { [ op |-> "delete_sucursal", tabla |-> "sucursales", empresa |-> e, id |-> s,
      data |-> SetEstadoFalse ] : e \in Empresas, s \in SucursalIds }
  \cup
  { [ op |-> "update_sucursal", tabla |-> "sucursales", empresa |-> x[1], id |-> x[2],
      data |-> model_dump(x[3]) ] :
      x \in Empresas \X SucursalIds \X SucursalUpdateEnVuelo }
  \cup
  { [ op |-> "delete_almacen", tabla |-> "almacenes", empresa |-> e, id |-> a,
      data |-> SetEstadoFalse ] : e \in Empresas, a \in AlmacenIds }
  \cup
  { [ op |-> "update_almacen", tabla |-> "almacenes", empresa |-> x[1], id |-> x[2],
      data |-> model_dump(x[3]) ] :
      x \in Empresas \X AlmacenIds \X AlmacenUpdateEnVuelo }

\* select(...).where(id, empresas_id_empresa) of the request's table
SelectRow(d, req) ==
  IF req.tabla = "sucursales" THEN SelectSucursal(d, req.id, req.empresa)
                              ELSE SelectAlmacen(d, req.id, req.empresa)

NotNull(req) == IF req.tabla = "sucursales" THEN SucursalNotNull ELSE AlmacenNotNull

\* the status a handler answers when it returns
Returns(req) ==
  IF req.op \in {"delete_sucursal", "delete_almacen"} THEN HTTP_204_NO_CONTENT
                                                      ELSE HTTP_200_OK

SameRow(t, u) ==
  txs[t].req.tabla = txs[u].req.tabla /\ txs[t].req.id = txs[u].req.id

\* the UPDATE of request t waits while another session holds an
\* uncommitted UPDATE of the same row
RowLocked(t) ==
  \E u \in Slots \ {t} :
    /\ txs[u].pc = "flushed"
    /\ SameRow(t, u)
    /\ Dirty(txs[u].loaded, txs[u].obj) # {}

\* result = await db.execute(q); scalar_one_or_none(); 404 when not found
RaceSelect(t) ==
  /\ txs[t].pc = "select"
  /\ LET found == SelectRow(db, txs[t].req)
     IN  txs' = IF found = None
                  THEN [ txs EXCEPT ![t].pc = "done", ![t].status = HTTP_404_NOT_FOUND ]
                  ELSE [ txs EXCEPT ![t].pc = "loaded", ![t].loaded = found[1],
                                    ![t].obj = found[1] ]
  /\ UNCHANGED <<db, response>>

\* setattr(...) on the loaded object; await db.flush().  raced records that
\* the other request had read the same row and not yet written it.
RaceFlush(t) ==
  /\ txs[t].pc = "loaded"
  /\ LET req == txs[t].req
         obj == SetAttrs(txs[t].loaded, req.data, NotNull(req))
     IN  IF ~ NotNullOk(req.data, NotNull(req))
           THEN txs' = [ txs EXCEPT ![t].pc = "done",
                                    ![t].status = HTTP_500_INTERNAL_SERVER_ERROR ]
           ELSE /\ Dirty(txs[t].loaded, obj) # {} => ~ RowLocked(t)
                /\ txs' = [ txs EXCEPT ![t].pc = "flushed", ![t].obj = obj,
                              ![t].raced = \E u \in Slots \ {t} :
                                              txs[u].pc = "loaded" /\ SameRow(t, u) ]
  /\ UNCHANGED <<db, response>>

\* the row as the committed UPDATE of request t leaves it: the written
\* columns from the object, the others as they are stored
Written(t, stored) ==
  [ f \in DOMAIN stored |->
      IF f \in Dirty(txs[t].loaded, txs[t].obj) THEN txs[t].obj[f] ELSE stored[f] ]

\* the handler returned: get_db commits the session
RaceCommit(t) ==
  /\ txs[t].pc = "flushed"
  /\ LET req == txs[t].req
     IN  db' = IF req.tabla = "sucursales"
                 THEN UpdateSucursal(Begin(db), Written(t, db.sucursales[req.id])).pending
                 ELSE UpdateAlmacen(Begin(db), Written(t, db.almacenes[req.id])).pending
  /\ txs' = [ txs EXCEPT ![t].pc = "done", ![t].status = Returns(txs[t].req) ]
  /\ UNCHANGED response

\* two requests received, on the tables of ConcDbLinked
InitRace ==
  /\ db = ConcDbLinked
  /\ response = Response("none", 0, 0)
  /\ txs \in [ Slots -> { [ pc |-> "select", req |-> r, loaded |-> None, obj |-> None,
                            status |-> 0, raced |-> FALSE ] : r \in EnVuelo } ]

NextRace ==
  \/ \E t \in Slots : RaceSelect(t)
  \/ \E t \in Slots : RaceFlush(t)
  \/ \E t \in Slots : RaceCommit(t)

SpecRace == InitRace /\ [][NextRace]_vars

---------------------------------------------------------------------------
(* Vocabulary of the properties *)

\* branch s exists and company e owns it
OwnsSucursal(d, e, s) ==
  s \in DOMAIN d.sucursales /\ d.sucursales[s].empresas_id_empresa = e

\* warehouse a exists and company e owns it
OwnsAlmacen(d, e, a) ==
  a \in DOMAIN d.almacenes /\ d.almacenes[a].empresas_id_empresa = e

\* branch s exists and a company other than e owns it
ForeignSucursal(d, e, s) ==
  s \in DOMAIN d.sucursales /\ d.sucursales[s].empresas_id_empresa # e

ForeignAlmacen(d, e, a) ==
  a \in DOMAIN d.almacenes /\ d.almacenes[a].empresas_id_empresa # e

Links(d, s, a) == CopiesIn(SucursalAlmacen(s, a), d.sucursales_almacenes)

Asigns(d, u, s) == CopiesIn(UsuarioSucursal(u, s), d.usuarios_sucursales)

\* the keys a link row can have
AllLinks == { SucursalAlmacen(s, a) : s \in SucursalIds, a \in AlmacenIds }
AllAsigns == { UsuarioSucursal(u, s) : u \in UsuarioIds, s \in SucursalIds }

---------------------------------------------------------------------------
(* C1 *)

\* C1: in every reachable state and for every caller, list_sucursales and
\* list_almacenes return exactly the rows owned by the caller's company,
\* and get_sucursal / get_almacen return the row when the caller's company
\* owns it and answer 404 when the id is absent or owned by another company.
C1_TenantScopedReads ==
  \A e \in Empresas :
    /\ list_sucursales(db, e).body =
         { SucursalResponse(db.sucursales[i]) :
             i \in { j \in SucursalIds : OwnsSucursal(db, e, j) } }
    /\ \A r \in list_sucursales(db, e).body : OwnsSucursal(db, e, r.id_sucursal)
    /\ list_almacenes(db, e).body =
         { AlmacenResponse(db.almacenes[i]) :
             i \in { j \in AlmacenIds : OwnsAlmacen(db, e, j) } }
    /\ \A r \in list_almacenes(db, e).body : OwnsAlmacen(db, e, r.id_almacen)
    /\ \A s \in SucursalIds :
         IF OwnsSucursal(db, e, s)
           THEN get_sucursal(db, e, s) =
                  Answer(HTTP_200_OK, Some(SucursalResponse(db.sucursales[s])))
           ELSE get_sucursal(db, e, s) = Answer(HTTP_404_NOT_FOUND, None)
    /\ \A a \in AlmacenIds :
         IF OwnsAlmacen(db, e, a)
           THEN get_almacen(db, e, a) =
                  Answer(HTTP_200_OK, Some(AlmacenResponse(db.almacenes[a])))
           ELSE get_almacen(db, e, a) = Answer(HTTP_404_NOT_FOUND, None)

\* both companies own a branch and one of them a warehouse: each list leaves
\* rows out and a get of the other company's id answers 404
C1_Witness ==
  \E e \in Empresas, s \in SucursalIds, a \in AlmacenIds :
    /\ ForeignSucursal(db, e, s)
    /\ ForeignAlmacen(db, e, a)
    /\ list_sucursales(db, e).body # {}
    /\ get_sucursal(db, e, s).status = HTTP_404_NOT_FOUND
    /\ get_almacen(db, e, a).status = HTTP_404_NOT_FOUND

---------------------------------------------------------------------------
(* C2 *)

\* what a request of company e must leave alone in d2, the tables after it:
\* the rows of the other companies, and the link rows that reference a
\* branch or a warehouse of another company
Untouched(e, d2) ==
  /\ \A s \in DOMAIN db.sucursales :
       ForeignSucursal(db, e, s) =>
         s \in DOMAIN d2.sucursales /\ d2.sucursales[s] = db.sucursales[s]
  /\ \A a \in DOMAIN db.almacenes :
       ForeignAlmacen(db, e, a) =>
         a \in DOMAIN d2.almacenes /\ d2.almacenes[a] = db.almacenes[a]
  /\ \A l \in AllLinks :
       (\/ ForeignSucursal(db, e, l.sucursales_id_sucursal)
        \/ ForeignAlmacen(db, e, l.almacenes_id_almacen)) =>
         CopiesIn(l, d2.sucursales_almacenes) = CopiesIn(l, db.sucursales_almacenes)
  /\ \A x \in AllAsigns :
       ForeignSucursal(db, e, x.sucursales_id_sucursal) =>
         CopiesIn(x, d2.usuarios_sucursales) = CopiesIn(x, db.usuarios_sucursales)

\* answered 404 or 400 with every table as before
Rejected(r) ==
  /\ r.status \in {HTTP_404_NOT_FOUND, HTTP_400_BAD_REQUEST}
  /\ get_db(r) = db

\* the request r of company e leaves the other companies alone, and is
\* rejected when it addresses a branch or warehouse of another company
Isolated(e, r, foreign) == Untouched(e, get_db(r)) /\ (foreign => Rejected(r))

\* C2: no update, delete, link, unlink, assign or remove issued by a caller
\* of company e changes a branch or warehouse row of another company or a
\* link row referencing one; when the branch or warehouse id it addresses is
\* owned by another company it answers 404 or 400 and the store is unchanged.
C2_TenantScopedWrites ==
  \A e \in Empresas :
    /\ \A s \in SucursalIds :
         /\ \A b \in SucursalUpdate :
              Isolated(e, update_sucursal(db, e, s, b), ForeignSucursal(db, e, s))
         /\ Isolated(e, delete_sucursal(db, e, s), ForeignSucursal(db, e, s))
         /\ \A b \in UsuarioSucursalBody :
              Isolated(e, post_sucursal_usuarios(db, e, s, b), ForeignSucursal(db, e, s))
         /\ \A u \in UsuarioIds :
              Isolated(e, remove_usuario_from_sucursal(db, e, s, u),
                       ForeignSucursal(db, e, s))
    /\ \A a \in AlmacenIds :
         /\ \A b \in AlmacenUpdate :
              Isolated(e, update_almacen(db, e, a, b), ForeignAlmacen(db, e, a))
         /\ Isolated(e, delete_almacen(db, e, a), ForeignAlmacen(db, e, a))
         /\ \A b \in SucursalAlmacenCreate :
              Isolated(e, link_sucursal_to_almacen(db, e, a, b),
                       ForeignAlmacen(db, e, a) \/ ForeignSucursal(db, e, b.sucursal_id))
         /\ \A s \in SucursalIds :
              Isolated(e, unlink_sucursal_from_almacen(db, e, a, s),
                       ForeignAlmacen(db, e, a) \/ ForeignSucursal(db, e, s))

\* a delete_sucursal answered 404 although every branch id is a branch:
\* the branch it named is another company's
C2_Witness ==
  /\ response.op = "delete_sucursal"
  /\ response.status = HTTP_404_NOT_FOUND
  /\ \A s \in SucursalIds : s \in DOMAIN db.sucursales
  /\ \E s \in SucursalIds : ForeignSucursal(db, response.empresa, s)

---------------------------------------------------------------------------
(* C3 *)

\* C3: create_almacen with a sucursal_id that is absent or owned by another
\* company answers 400 and leaves the warehouse table and the
\* branch-warehouse link table as they were.
C3_CreateAlmacenBadSucursal ==
  \A e \in Empresas, b \in AlmacenCreate, f \in BOOLEAN :
    ~ OwnsSucursal(db, e, b.sucursal_id) =>
      LET r == create_almacen(db, e, b, f)
      IN  /\ r.status = HTTP_400_BAD_REQUEST
          /\ get_db(r).almacenes = db.almacenes
          /\ get_db(r).sucursales_almacenes = db.sucursales_almacenes

\* create_almacen answered 400 where every branch id is a branch, so the
\* branch it named is another company's, and no warehouse is stored
C3_Witness ==
  /\ response.op = "create_almacen"
  /\ response.status = HTTP_400_BAD_REQUEST
  /\ \A s \in SucursalIds : s \in DOMAIN db.sucursales
  /\ db.almacenes = <<>>

---------------------------------------------------------------------------
(* C4 *)

---------------------------------------------------------------------------
(* C5 *)

\* the warehouses of company e that have a link row to branch s
LinkedAlmacenes(d, e, s) ==
  { a \in DOMAIN d.almacenes : OwnsAlmacen(d, e, a) /\ Links(d, s, a) >= 1 }

\* C5: for a branch of the caller's company list_almacenes_de_sucursal
\* answers, in strictly ascending id order, exactly the warehouses of that
\* company with a link row to the branch; and a successful create_almacen
\* with sucursal_id = s adds the new warehouse at the end of that list (the
\* list is [W1] when the branch had no warehouse).
C5_AlmacenesDeSucursal ==
  \A e \in Empresas, s \in SucursalIds :
    OwnsSucursal(db, e, s) =>
      LET ans == list_almacenes_de_sucursal(db, e, s)
      IN  /\ ans.status = HTTP_200_OK
          /\ \A i \in DOMAIN ans.body :
               ans.body[i] = AlmacenResponse(db.almacenes[ans.body[i].id_almacen])
          /\ \A i, j \in DOMAIN ans.body :
               i < j => ans.body[i].id_almacen < ans.body[j].id_almacen
          /\ { ans.body[i].id_almacen : i \in DOMAIN ans.body } = LinkedAlmacenes(db, e, s)
          /\ \A b \in AlmacenCreate :
               LET r == create_almacen(db, e, b, FALSE)
                   d2 == get_db(r)
               IN  (b.sucursal_id = s /\ r.status = HTTP_201_CREATED) =>
                     list_almacenes_de_sucursal(d2, e, s).body =
                       Append(ans.body, AlmacenResponse(d2.almacenes[r.id]))

\* a branch with two warehouses, the second just created: the list holds
\* both in id order
C5_Witness ==
  /\ response.op = "create_almacen"
  /\ response.status = HTTP_201_CREATED
  /\ Len(db.almacenes) = 2
  /\ \E s \in SucursalIds :
       /\ OwnsSucursal(db, response.empresa, s)
       /\ list_almacenes_de_sucursal(db, response.empresa, s).body =
            << AlmacenResponse(db.almacenes[1]), AlmacenResponse(db.almacenes[2]) >>

---------------------------------------------------------------------------
(* C6 *)

\* C6: delete_sucursal / delete_almacen on a row of the caller's company
\* answers 204 whatever the flag was, changes nothing but that row's flag,
\* which becomes false, and keeps the row: a get by the same company then
\* answers 200 with estado false, and a second delete answers 204 and
\* changes nothing.
C6_SoftDelete ==
  \A e \in Empresas :
    /\ \A s \in SucursalIds :
         OwnsSucursal(db, e, s) =>
           LET r == delete_sucursal(db, e, s)
               d2 == get_db(r)
               r2 == delete_sucursal(d2, e, s)
           IN  /\ r.status = HTTP_204_NO_CONTENT
               /\ d2 = [ db EXCEPT !.sucursales[s].estado = FALSE ]
               /\ get_sucursal(d2, e, s).status = HTTP_200_OK
               /\ get_sucursal(d2, e, s).body[1].estado = FALSE
               /\ r2.status = HTTP_204_NO_CONTENT
               /\ get_db(r2) = d2
    /\ \A a \in AlmacenIds :
         OwnsAlmacen(db, e, a) =>
           LET r == delete_almacen(db, e, a)
               d2 == get_db(r)
               r2 == delete_almacen(d2, e, a)
           IN  /\ r.status = HTTP_204_NO_CONTENT
               /\ d2 = [ db EXCEPT !.almacenes[a].estado = FALSE ]
               /\ get_almacen(d2, e, a).status = HTTP_200_OK
               /\ get_almacen(d2, e, a).body[1].estado = FALSE
               /\ r2.status = HTTP_204_NO_CONTENT
               /\ get_db(r2) = d2

\* after a delete_almacen answered 204 every row of the caller's company is
\* inactive and still answered by get
C6_Witness ==
  /\ response.op = "delete_almacen"
  /\ response.status = HTTP_204_NO_CONTENT
  /\ \E a \in AlmacenIds : OwnsAlmacen(db, response.empresa, a)
  /\ \A a \in AlmacenIds :
       OwnsAlmacen(db, response.empresa, a) =>
         /\ ~ db.almacenes[a].estado
         /\ get_almacen(db, response.empresa, a).status = HTTP_200_OK

---------------------------------------------------------------------------
(* C7 *)

\* some row that is inactive before the step is active after it
Reactivated ==
  \/ \E s \in DOMAIN db.sucursales : ~ db.sucursales[s].estado /\ db'.sucursales[s].estado
  \/ \E a \in DOMAIN db.almacenes : ~ db.almacenes[a].estado /\ db'.almacenes[a].estado

\* C7 as claimed: once a branch or warehouse is inactive no operation makes
\* it active again.
C7_OneWay == [][~ Reactivated]_vars

\* C7 as amended: an inactive row becomes active again only by an
\* update_sucursal / update_almacen of that row, issued by the company that
\* owns it, whose body supplies estado = true; create, delete, link, unlink,
\* assign, remove and the other updates never reactivate a row.
C7_OnlyUpdateReactivates ==
  [][ /\ \A s \in DOMAIN db.sucursales :
           (~ db.sucursales[s].estado /\ db'.sucursales[s].estado) =>
             /\ response'.op = "update_sucursal"
             /\ response'.status = HTTP_200_OK
             /\ response'.empresa = db.sucursales[s].empresas_id_empresa
             /\ \A e \in Empresas, t \in SucursalIds, b \in SucursalUpdate :
                  PatchSucursal(e, t, b) => t = s /\ b.estado = <<Some(TRUE)>>
      /\ \A a \in DOMAIN db.almacenes :
           (~ db.almacenes[a].estado /\ db'.almacenes[a].estado) =>
             /\ response'.op = "update_almacen"
             /\ response'.status = HTTP_200_OK
             /\ response'.empresa = db.almacenes[a].empresas_id_empresa
             /\ \A e \in Empresas, t \in AlmacenIds, b \in AlmacenUpdate :
                  PatchAlmacen(e, t, b) => t = a /\ b.estado = <<Some(TRUE)>>
    ]_vars

\* a branch just soft-deleted that an update of its owner supplying
\* estado = true makes active again
C7_Witness ==
  /\ response.op = "delete_sucursal"
  /\ response.status = HTTP_204_NO_CONTENT
  /\ \E s \in SucursalIds, b \in SucursalUpdate :
       /\ OwnsSucursal(db, response.empresa, s)
       /\ ~ db.sucursales[s].estado
       /\ b.estado = <<Some(TRUE)>>
       /\ update_sucursal(db, response.empresa, s, b).status = HTTP_200_OK
       /\ get_db(update_sucursal(db, response.empresa, s, b)).sucursales[s].estado

---------------------------------------------------------------------------
(* C9 *)

\* C9: for a warehouse of the caller's company unlink_sucursal_from_almacen
\* answers 404 and changes nothing when the pair has no link row, and
\* otherwise answers 204 and removes that row and nothing else;
\* remove_usuario_from_sucursal does the same for a branch of the caller's
\* company and the (user, branch) pair.  A pair without a row is answered
\* 404 for every caller.
C9_Unlink ==
  \A e \in Empresas, s \in SucursalIds :
    /\ \A a \in AlmacenIds :
         LET r == unlink_sucursal_from_almacen(db, e, a, s)
         IN  /\ Links(db, s, a) = 0 =>
                  r.status = HTTP_404_NOT_FOUND /\ get_db(r) = db
             /\ (OwnsAlmacen(db, e, a) /\ Links(db, s, a) >= 1) =>
                  /\ r.status = HTTP_204_NO_CONTENT
                  /\ Links(get_db(r), s, a) = 0
                  /\ get_db(r) =
                       [ db EXCEPT !.sucursales_almacenes =
                                      @ (-) SetToBag({SucursalAlmacen(s, a)}) ]
    /\ \A u \in UsuarioIds :
         LET r == remove_usuario_from_sucursal(db, e, s, u)
         IN  /\ Asigns(db, u, s) = 0 =>
                  r.status = HTTP_404_NOT_FOUND /\ get_db(r) = db
             /\ (OwnsSucursal(db, e, s) /\ Asigns(db, u, s) >= 1) =>
                  /\ r.status = HTTP_204_NO_CONTENT
                  /\ Asigns(get_db(r), u, s) = 0
                  /\ get_db(r) =
                       [ db EXCEPT !.usuarios_sucursales =
                                      @ (-) SetToBag({UsuarioSucursal(u, s)}) ]

\* an unlink answered 204 that left a warehouse with one of its two links
C9_Witness ==
  /\ response.op = "unlink_sucursal_from_almacen"
  /\ response.status = HTTP_204_NO_CONTENT
  /\ \E a \in AlmacenIds, s, t \in SucursalIds :
       /\ OwnsAlmacen(db, response.empresa, a)
       /\ OwnsSucursal(db, response.empresa, s)
       /\ OwnsSucursal(db, response.empresa, t)
       /\ Links(db, s, a) = 0
       /\ Links(db, t, a) = 1

---------------------------------------------------------------------------
(* C10 *)

\* C10 as claimed: POST /sucursales/{sucursal_id}/usuarios answers 400 and
\* adds no row when the branch or the user is not of the caller's company,
\* and also when the body carries a branch reference that differs from the
\* path's sucursal_id.
C10_AssignValidatesPathAndBody ==
  \A e \in Empresas, s \in SucursalIds, b \in UsuarioSucursalBody :
    LET r == post_sucursal_usuarios(db, e, s, b)
    IN  (\/ ~ OwnsSucursal(db, e, s)
         \/ SelectUsuario(b.usuario_id, e) = None
         \/ (b.sucursales_id_sucursal # None /\ b.sucursales_id_sucursal # Some(s))) =>
          /\ r.status = HTTP_400_BAD_REQUEST
          /\ get_db(r).usuarios_sucursales = db.usuarios_sucursales

---------------------------------------------------------------------------
(* C8 *)

\* C8: the link table never holds two rows for one (branch, warehouse)
\* pair.  A link request for a pair that already has its committed row
\* fails on the primary key with an uncaught error (500) and changes
\* nothing, whether the two requests ran one after the other or together:
\* a request answered 201 or 500 leaves exactly one row for its pair, and of
\* two requests for the same pair at most one is answered 201.
C8_NoDuplicateLink ==
  /\ \A l \in AllLinks : CopiesIn(l, db.sucursales_almacenes) <= 1
  /\ \A t \in Slots :
       (txs[t].pc = "done" /\ txs[t].status \in {HTTP_201_CREATED,
                                                  HTTP_500_INTERNAL_SERVER_ERROR}) =>
         CopiesIn(Vinculo(t), db.sucursales_almacenes) = 1
  /\ \A t, u \in Slots :
       (t # u /\ txs[t].pc = "done" /\ txs[u].pc = "done" /\ Vinculo(t) = Vinculo(u)) =>
         ~ (txs[t].status = HTTP_201_CREATED /\ txs[u].status = HTTP_201_CREATED)
  /\ \A e \in Empresas, a \in AlmacenIds, b \in SucursalAlmacenCreate :
       (/\ OwnsAlmacen(db, e, a)
        /\ OwnsSucursal(db, e, b.sucursal_id)
        /\ Links(db, b.sucursal_id, a) >= 1) =>
         LET r == link_sucursal_to_almacen(db, e, a, b)
         IN  r.status = HTTP_500_INTERNAL_SERVER_ERROR /\ get_db(r) = db

\* two requests for the same pair that were in flight together: one
\* answered 201, the other 500, one row stored
C8_Witness ==
  \E t, u \in Slots :
    /\ t # u
    /\ txs[t].pc = "done" /\ txs[t].status = HTTP_201_CREATED
    /\ txs[u].pc = "done" /\ txs[u].status = HTTP_500_INTERNAL_SERVER_ERROR
    /\ Vinculo(t) = Vinculo(u)
    /\ txs[t].overlap /\ txs[u].overlap
    /\ CopiesIn(Vinculo(t), db.sucursales_almacenes) = 1

---------------------------------------------------------------------------
(* C11 *)

\* C11: create_sucursal with an almacen_id supplied links the new branch to
\* that warehouse when the caller's company owns the warehouse (a (new
\* branch id, almacen_id) link row exists afterwards), and answers 400
\* without creating the branch when the warehouse is absent or owned by
\* another company.
C11_CreateSucursalLinksAlmacen ==
  \A e \in Empresas, b \in SucursalCreate :
    b.almacen_id # None =>
      LET r == create_sucursal(db, e, b)
          d2 == get_db(r)
      IN  IF OwnsAlmacen(db, e, b.almacen_id[1])
            THEN /\ r.status = HTTP_201_CREATED
                 /\ Links(d2, r.id, b.almacen_id[1]) >= 1
            ELSE /\ r.status = HTTP_400_BAD_REQUEST
                 /\ d2 = db

---------------------------------------------------------------------------
(* C12 *)

\* the row after a partial update with the body's supplied fields: every
\* supplied field holds the supplied value (an explicit null included),
\* every other field is as in old
Patched(old, new, payload, notnull) ==
  \A f \in DOMAIN old :
    IF f \in SuppliedFields(payload)
      THEN IF f \in notnull THEN payload[f][1] = Some(new[f])
                            ELSE payload[f][1] = new[f]
      ELSE new[f] = old[f]

\* C12: update_sucursal / update_almacen answer 200 and change exactly the
\* supplied fields of the addressed row to the supplied values (an
\* explicitly supplied null is a supplied field), leaving every other
\* field, every other row and both link tables unchanged; when the id is
\* absent or owned by another company they answer 404 and change nothing.
C12_PartialUpdate ==
  \A e \in Empresas :
    /\ \A s \in SucursalIds, b \in SucursalUpdate :
         LET r == update_sucursal(db, e, s, b)
             d2 == get_db(r)
         IN  IF OwnsSucursal(db, e, s)
               THEN /\ r.status = HTTP_200_OK
                    /\ DOMAIN d2.sucursales = DOMAIN db.sucursales
                    /\ Patched(db.sucursales[s], d2.sucursales[s], b, SucursalNotNull)
                    /\ \A i \in DOMAIN db.sucursales \ {s} :
                         d2.sucursales[i] = db.sucursales[i]
                    /\ d2.almacenes = db.almacenes
                    /\ d2.sucursales_almacenes = db.sucursales_almacenes
                    /\ d2.usuarios_sucursales = db.usuarios_sucursales
               ELSE r.status = HTTP_404_NOT_FOUND /\ d2 = db
    /\ \A a \in AlmacenIds, b \in AlmacenUpdate :
         LET r == update_almacen(db, e, a, b)
             d2 == get_db(r)
         IN  IF OwnsAlmacen(db, e, a)
               THEN /\ r.status = HTTP_200_OK
                    /\ DOMAIN d2.almacenes = DOMAIN db.almacenes
                    /\ Patched(db.almacenes[a], d2.almacenes[a], b, AlmacenNotNull)
                    /\ \A i \in DOMAIN db.almacenes \ {a} :
                         d2.almacenes[i] = db.almacenes[i]
                    /\ d2.sucursales = db.sucursales
                    /\ d2.sucursales_almacenes = db.sucursales_almacenes
                    /\ d2.usuarios_sucursales = db.usuarios_sucursales
               ELSE r.status = HTTP_404_NOT_FOUND /\ d2 = db

---------------------------------------------------------------------------
(* C13 *)

\* C13: the owning company of a branch or warehouse is set at creation to
\* the caller's company and never changes: in every step every row that
\* exists keeps its empresas_id_empresa (and stays in its table), and a row
\* that appears was created by create_sucursal / create_almacen with the
\* company of the caller.
C13_OwnershipImmutable ==
  [][ /\ \A s \in DOMAIN db.sucursales :
           /\ s \in DOMAIN db'.sucursales
           /\ db'.sucursales[s].id_sucursal = db.sucursales[s].id_sucursal
           /\ db'.sucursales[s].empresas_id_empresa = db.sucursales[s].empresas_id_empresa
      /\ \A a \in DOMAIN db.almacenes :
           /\ a \in DOMAIN db'.almacenes
           /\ db'.almacenes[a].id_almacen = db.almacenes[a].id_almacen
           /\ db'.almacenes[a].empresas_id_empresa = db.almacenes[a].empresas_id_empresa
      /\ \A s \in DOMAIN db'.sucursales \ DOMAIN db.sucursales :
           /\ response'.op = "create_sucursal"
           /\ db'.sucursales[s].empresas_id_empresa = response'.empresa
      /\ \A a \in DOMAIN db'.almacenes \ DOMAIN db.almacenes :
           /\ response'.op = "create_almacen"
           /\ db'.almacenes[a].empresas_id_empresa = response'.empresa
    ]_vars

\* a branch was just updated by its owner while another company has a
\* branch too
C13_Witness ==
  /\ response.op = "update_sucursal"
  /\ response.status = HTTP_200_OK
  /\ \E s \in DOMAIN db.sucursales : OwnsSucursal(db, response.empresa, s)
  /\ \E s \in DOMAIN db.sucursales : ForeignSucursal(db, response.empresa, s)

---------------------------------------------------------------------------
(* C14 *)

\* C14: in every reachable state every branch-warehouse link row connects
\* a branch and a warehouse that both exist and have the same owning
\* company, every user-branch link row connects a user and a branch of the
\* same company, and a link or assign request is answered 201 only when
\* both sides belong to the caller's company.
C14_LinksSameCompany ==
  /\ \A l \in BagToSet(db.sucursales_almacenes) :
       /\ l.sucursales_id_sucursal \in DOMAIN db.sucursales
       /\ l.almacenes_id_almacen \in DOMAIN db.almacenes
       /\ db.sucursales[l.sucursales_id_sucursal].empresas_id_empresa =
            db.almacenes[l.almacenes_id_almacen].empresas_id_empresa
  /\ \A x \in BagToSet(db.usuarios_sucursales) :
       /\ x.usuarios_id_usuario \in DOMAIN usuarios
       /\ x.sucursales_id_sucursal \in DOMAIN db.sucursales
       /\ usuarios[x.usuarios_id_usuario] =
            db.sucursales[x.sucursales_id_sucursal].empresas_id_empresa
  /\ \A e \in Empresas, a \in AlmacenIds, b \in SucursalAlmacenCreate :
       link_sucursal_to_almacen(db, e, a, b).status = HTTP_201_CREATED =>
         OwnsAlmacen(db, e, a) /\ OwnsSucursal(db, e, b.sucursal_id)
  /\ \A e \in Empresas, s \in SucursalIds, b \in UsuarioSucursalBody :
       post_sucursal_usuarios(db, e, s, b).status = HTTP_201_CREATED =>
         OwnsSucursal(db, e, s) /\ usuarios[b.usuario_id] = e

\* both companies have a branch, and a branch-warehouse link row and a
\* user-branch link row are stored
C14_Witness ==
  /\ \E s, t \in DOMAIN db.sucursales :
       db.sucursales[s].empresas_id_empresa # db.sucursales[t].empresas_id_empresa
  /\ db.sucursales_almacenes # EmptyBag
  /\ db.usuarios_sucursales # EmptyBag

---------------------------------------------------------------------------
(* C15 *)

\* the ids of the warehouses a list_almacenes_de_sucursal answer holds
ListedAlmacenes(ans) == { ans.body[i].id_almacen : i \in DOMAIN ans.body }

\* C15: links and entities do not cascade.  unlink_sucursal_from_almacen
\* and remove_usuario_from_sucursal leave every branch and warehouse row
\* as it was, active flag included; delete_sucursal and delete_almacen
\* leave both link tables as they were, and after delete_almacen the
\* soft-deleted warehouse is still returned, inactive, by
\* list_almacenes_de_sucursal of every branch it is linked to.
C15_NoCascade ==
  \A e \in Empresas :
    /\ \A a \in AlmacenIds, s \in SucursalIds :
         LET d2 == get_db(unlink_sucursal_from_almacen(db, e, a, s))
         IN  d2.sucursales = db.sucursales /\ d2.almacenes = db.almacenes
    /\ \A s \in SucursalIds, u \in UsuarioIds :
         LET d2 == get_db(remove_usuario_from_sucursal(db, e, s, u))
         IN  d2.sucursales = db.sucursales /\ d2.almacenes = db.almacenes
    /\ \A s \in SucursalIds :
         LET d2 == get_db(delete_sucursal(db, e, s))
         IN  /\ d2.sucursales_almacenes = db.sucursales_almacenes
             /\ d2.usuarios_sucursales = db.usuarios_sucursales
             /\ d2.almacenes = db.almacenes
             /\ OwnsSucursal(db, e, s) =>
                  list_almacenes_de_sucursal(d2, e, s) =
                    list_almacenes_de_sucursal(db, e, s)
    /\ \A a \in AlmacenIds :
         LET d2 == get_db(delete_almacen(db, e, a))
         IN  /\ d2.sucursales_almacenes = db.sucursales_almacenes
             /\ d2.usuarios_sucursales = db.usuarios_sucursales
             /\ d2.sucursales = db.sucursales
             /\ \A s \in SucursalIds :
                  (OwnsAlmacen(db, e, a) /\ OwnsSucursal(db, e, s) /\ Links(db, s, a) >= 1) =>
                    /\ ~ d2.almacenes[a].estado
                    /\ a \in ListedAlmacenes(list_almacenes_de_sucursal(d2, e, s))

\* a warehouse was just soft-deleted; its link row is still stored and the
\* branch's list still returns it, inactive
C15_Witness ==
  /\ response.op = "delete_almacen"
  /\ response.status = HTTP_204_NO_CONTENT
  /\ \E s \in SucursalIds, a \in AlmacenIds :
       /\ OwnsSucursal(db, response.empresa, s)
       /\ OwnsAlmacen(db, response.empresa, a)
       /\ ~ db.almacenes[a].estado
       /\ Links(db, s, a) = 1
       /\ a \in ListedAlmacenes(list_almacenes_de_sucursal(db, response.empresa, s))

---------------------------------------------------------------------------
(* C16 *)

\* C16: unlink_sucursal_from_almacen checks the company of the warehouse
\* only and remove_usuario_from_sucursal that of the branch only, yet in
\* every reachable state the only link row either can delete is the one it
\* names, and that row connects a branch and a warehouse (a user and a
\* branch) that all belong to the caller's company.
C16_NoForeignLinkDeleted ==
  \A e \in Empresas :
    /\ \A a \in AlmacenIds, s \in SucursalIds :
         LET d2 == get_db(unlink_sucursal_from_almacen(db, e, a, s))
         IN  /\ d2.usuarios_sucursales = db.usuarios_sucursales
             /\ \A l \in AllLinks :
                  CopiesIn(l, d2.sucursales_almacenes) # CopiesIn(l, db.sucursales_almacenes) =>
                    /\ l = SucursalAlmacen(s, a)
                    /\ OwnsAlmacen(db, e, a)
                    /\ OwnsSucursal(db, e, s)
    /\ \A s \in SucursalIds, u \in UsuarioIds :
         LET d2 == get_db(remove_usuario_from_sucursal(db, e, s, u))
         IN  /\ d2.sucursales_almacenes = db.sucursales_almacenes
             /\ \A x \in AllAsigns :
                  CopiesIn(x, d2.usuarios_sucursales) # CopiesIn(x, db.usuarios_sucursales) =>
                    /\ x = UsuarioSucursal(u, s)
                    /\ OwnsSucursal(db, e, s)
                    /\ usuarios[u] = e

\* a user-branch link row was just removed while the other company has a
\* branch and a user of its own
C16_Witness ==
  /\ response.op = "remove_usuario_from_sucursal"
  /\ response.status = HTTP_204_NO_CONTENT
  /\ \E s \in DOMAIN db.sucursales : ForeignSucursal(db, response.empresa, s)
  /\ \E u \in UsuarioIds : usuarios[u] # response.empresa

---------------------------------------------------------------------------
(* C17 *)

\* the stored row a finished request addressed
StoredRow(t) ==
  IF txs[t].req.tabla = "sucursales" THEN db.sucursales[txs[t].req.id]
                                     ELSE db.almacenes[txs[t].req.id]

\* request t is a delete answered 204 and request u an update of the same
\* row, answered 200, whose body does not supply estado
DeleteAndUpdate(t, u) ==
  /\ txs[t].pc = "done" /\ txs[u].pc = "done"
  /\ SameRow(t, u)
  /\ txs[t].req.op \in {"delete_sucursal", "delete_almacen"}
  /\ txs[t].status = HTTP_204_NO_CONTENT
  /\ txs[u].req.op \in {"update_sucursal", "update_almacen"}
  /\ txs[u].status = HTTP_200_OK
  /\ "estado" \notin DOMAIN txs[u].req.data

\* C17: when a delete and an update that does not supply estado run
\* together on the same branch (or warehouse), in every interleaving the
\* final row is inactive and holds the fields the update supplied: the
\* update does not write back the active flag it read.
C17_DeleteNotLost ==
  \A t, u \in Slots :
    DeleteAndUpdate(t, u) =>
      /\ ~ StoredRow(t).estado
      /\ \A f \in DOMAIN txs[u].req.data :
           StoredRow(u)[f] = SetAttrs(txs[u].loaded, txs[u].req.data, NotNull(txs[u].req))[f]

\* a delete and an update of nombre both read the active row before either
\* wrote it, and both have finished
C17_Witness ==
  \E t, u \in Slots :
    /\ DeleteAndUpdate(t, u)
    /\ txs[t].raced \/ txs[u].raced
    /\ txs[t].loaded.estado /\ txs[u].loaded.estado
    /\ "nombre" \in DOMAIN txs[u].req.data
    /\ StoredRow(u).nombre = "n2"

=============================================================================
